---- MODULE Spec2Model ----
(***************************************************************************)
(* Model of bench/open-ntimes.c: the latency benchmark that opens a path   *)
(* ntimes (plus a warm-up), feeds every post-warm-up duration to a stats   *)
(* accumulator, an outlier detector and a histogram, and prints a report.  *)
(*                                                                         *)
(* uint64_t values are kept at their full width: a value is a sequence of  *)
(* Limbs bytes, least significant first, and + and * wrap modulo 2^64.     *)
(* A double is kept as an exact fraction [num, den]; the comparisons the   *)
(* program makes on doubles (value > threshold, percent > 5.0) are made on *)
(* the fractions by cross multiplication.                                  *)
(***************************************************************************)
EXTENDS Integers, Sequences, FiniteSets, TLC

(***************************************************************************)
(* Program constants                                                       *)
(***************************************************************************)
OUTLIER_CALIBRATION_SAMPLES == 50
OUTLIER_THRESHOLD_MULTIPLIER == 10
OUTLIER_THRESHOLD_PERCENT == 5
HIST_MIN == 100
HIST_STEP == 100
HIST_MAX == 2000
HIST_BUCKETS == (HIST_MAX - HIST_MIN) \div HIST_STEP

\* errno values the open of the path can fail with
ENOENT == 2
EACCES == 13

(***************************************************************************)
(* Bounds of the model                                                     *)
(***************************************************************************)
\* short runs: ntimes in -1 .. MaxSmallNtimes
MaxSmallNtimes == 3
\* the longest run has MaxAfterInit samples after the calibration point
MaxAfterInit == 20
\* the histogram functions are tried on every value in 0 .. MaxHistValue
MaxHistValue == 2100

(***************************************************************************)
(* uint64_t arithmetic on byte sequences                                   *)
(***************************************************************************)
Base == 256
Limbs == 8

\* the bytes of a small natural number (n < 2^31), as a uint64_t
U64(n) ==
  [k \in 1..Limbs |->
     IF k = 1 THEN n % Base
     ELSE IF k = 2 THEN (n \div Base) % Base
     ELSE IF k = 3 THEN (n \div (Base * Base)) % Base
     ELSE IF k = 4 THEN n \div (Base * Base * Base)
     ELSE 0]

\* propagate the carries of the columns cols[k..], dropping the final carry
RECURSIVE Norm(_, _, _)
Norm(cols, k, c) ==
  IF k > Len(cols) THEN <<>>
  ELSE LET t == cols[k] + c
       IN  <<t % Base>> \o Norm(cols, k + 1, t \div Base)

\* a, zero-extended or truncated to n bytes
Pad(a, n) == [k \in 1..n |-> IF k <= Len(a) THEN a[k] ELSE 0]

\* sum over j in lo..hi of a[j] * b[k + 1 - j]
RECURSIVE ColSum(_, _, _, _, _)
ColSum(a, b, k, lo, hi) ==
  IF lo > hi THEN 0
  ELSE a[lo] * b[k + 1 - lo] + ColSum(a, b, k, lo + 1, hi)

Max2(x, y) == IF x > y THEN x ELSE y
Min2(x, y) == IF x < y THEN x ELSE y

\* the low n bytes of the product a * b
MulN(a, b, n) ==
  Norm([k \in 1..n |->
          ColSum(a, b, k, Max2(1, k + 1 - Len(b)), Min2(k, Len(a)))], 1, 0)

\* uint64_t + uint64_t and uint64_t * uint64_t, modulo 2^64
Add64(a, b) == Norm([k \in 1..Limbs |-> a[k] + b[k]], 1, 0)
Mul64(a, b) == MulN(a, b, Limbs)

\* the full product and the full sum, nothing dropped
MulWide(a, b) == MulN(a, b, Len(a) + Len(b))
AddWide(a, b) ==
  LET n == Max2(Len(a), Len(b)) + 1
  IN  Norm([k \in 1..n |-> Pad(a, n)[k] + Pad(b, n)[k]], 1, 0)

\* a < b on sequences of the same length, from the top byte down
RECURSIVE LessFrom(_, _, _)
LessFrom(a, b, k) ==
  IF k = 0 THEN FALSE
  ELSE IF a[k] # b[k] THEN a[k] < b[k]
  ELSE LessFrom(a, b, k - 1)

Less(a, b) ==
  LET n == Max2(Len(a), Len(b))
  IN  LessFrom(Pad(a, n), Pad(b, n), n)

Leq(a, b) == ~Less(b, a)
Same(a, b) == ~Less(a, b) /\ ~Less(b, a)

UINT64_MAX == [k \in 1..Limbs |-> Base - 1]
\* 2^32 nanoseconds: an open that stalls for about 4.3 seconds
TwoPow32 == [k \in 1..Limbs |-> IF k = 5 THEN 1 ELSE 0]

\* the value of a byte sequence known to be below 2^24
ToInt(a) == a[1] + Base * a[2] + Base * Base * a[3]

(***************************************************************************)
(* Inputs                                                                  *)
(***************************************************************************)
\* the longest run: MaxAfterInit samples are classified
LongestRun == OUTLIER_CALIBRATION_SAMPLES + 1 + MaxAfterInit

\* atoi(argv[1]): invalid and short runs, the 11-sample run, and runs at and
\* above the calibration floor
NtimesInputs ==
  (-1 .. MaxSmallNtimes)
    \cup {11, OUTLIER_CALIBRATION_SAMPLES, OUTLIER_CALIBRATION_SAMPLES + 2,
          OUTLIER_CALIBRATION_SAMPLES + 3, OUTLIER_CALIBRATION_SAMPLES + 4,
          LongestRun}

\* atoi(argv[2]) and the VERBOSE toggle: an expected failure is tried in the
\* runs up to the calibration floor, verbose output in the runs below the
\* floor and in one run above it
ErrInputs(n) ==
  IF n <= OUTLIER_CALIBRATION_SAMPLES THEN {0, ENOENT} ELSE {0}
VerboseInputs(n) ==
  IF n < OUTLIER_CALIBRATION_SAMPLES \/ n = OUTLIER_CALIBRATION_SAMPLES + 2
  THEN BOOLEAN
  ELSE {FALSE}

\* the durations one open can take in a run of n samples: short runs see
\* tiny durations and a stall, one run sees durations of 1 and 10 times the
\* base latency, one run of 1 and 15 times the base latency (a spike that is
\* still in the range of the histogram), the others a base latency and a
\* 50-fold spike
Latencies(n) ==
  IF n <= MaxSmallNtimes
  THEN {U64(10), U64(20), U64(30), TwoPow32}
  ELSE IF n = OUTLIER_CALIBRATION_SAMPLES + 3
  THEN {U64(100), U64(1000)}
  ELSE IF n = OUTLIER_CALIBRATION_SAMPLES + 4
  THEN {U64(100), U64(1500)}
  ELSE {U64(100), U64(5000)}

\* outcome of open(): 0 for a file descriptor, otherwise the errno
OpenOutcomes == {0, ENOENT, EACCES}

(***************************************************************************)
(* struct stats                                                            *)
(***************************************************************************)
stats_init ==
  [sum |-> U64(0), sum_of_squares |-> U64(0), min |-> UINT64_MAX,
   max |-> U64(0), count |-> 0]

\* add_stat that accumulates the value instead of its square
add_stat_no_square(st, value) ==
  [sum            |-> Add64(st.sum, value),
   sum_of_squares |-> Add64(st.sum_of_squares, value),
   count          |-> st.count + 1,
   min            |-> IF Less(value, st.min) THEN value ELSE st.min,
   max            |-> IF Less(st.max, value) THEN value ELSE st.max]

\* add_stat with the comparison of the max update inverted
add_stat_max_inverted(st, value) ==
  [sum            |-> Add64(st.sum, value),
   sum_of_squares |-> Add64(st.sum_of_squares, Mul64(value, value)),
   count          |-> st.count + 1,
   min            |-> IF Less(value, st.min) THEN value ELSE st.min,
   max            |-> IF Less(value, st.max) THEN value ELSE st.max]

add_stat(st, value) ==
  [sum            |-> Add64(st.sum, value),
   sum_of_squares |-> Add64(st.sum_of_squares, Mul64(value, value)),
   count          |-> st.count + 1,
   min            |-> IF Less(value, st.min) THEN value ELSE st.min,
   max            |-> IF Less(st.max, value) THEN value ELSE st.max]

\* a double, as the fraction num / den
Frac(n, d) == [num |-> n, den |-> d]
FracZero == Frac(U64(0), 1)

compute_mean(st) ==
  IF st.count = 0
  THEN [ok |-> FALSE, mean |-> FracZero]
  ELSE [ok |-> TRUE, mean |-> Frac(st.sum, st.count)]

(***************************************************************************)
(* struct outlier_detection                                                *)
(***************************************************************************)
\* the detector starting out armed
od_init_armed ==
  [initialized |-> TRUE, calibration_avg |-> FracZero,
   threshold |-> FracZero, outlier_count |-> 0, samples_after_init |-> 0]

od_init ==
  [initialized |-> FALSE, calibration_avg |-> FracZero,
   threshold |-> FracZero, outlier_count |-> 0, samples_after_init |-> 0]

\* init_outlier_detection that forgets the multiplier
init_outlier_detection_no_multiplier(o, st) ==
  LET m == compute_mean(st)
  IN  IF ~m.ok
      THEN [ok |-> FALSE, od |-> o]
      ELSE [ok |-> TRUE,
            od |-> [initialized        |-> TRUE,
                    calibration_avg    |-> m.mean,
                    threshold          |-> m.mean,
                    outlier_count      |-> 0,
                    samples_after_init |-> 0]]

init_outlier_detection(o, st) ==
  LET m == compute_mean(st)
  IN  IF ~m.ok
      THEN [ok |-> FALSE, od |-> o]
      ELSE [ok |-> TRUE,
            od |-> [initialized        |-> TRUE,
                    calibration_avg    |-> m.mean,
                    threshold          |->
                      Frac(MulWide(m.mean.num,
                                   U64(OUTLIER_THRESHOLD_MULTIPLIER)),
                           m.mean.den),
                    outlier_count      |-> 0,
                    samples_after_init |-> 0]]

\* the comparison with >= in place of >
ExceedsThreshold_or_equal(value, threshold) ==
  ~Less(MulWide(value, U64(threshold.den)), threshold.num)

\* (double)value > threshold
ExceedsThreshold(value, threshold) ==
  Less(threshold.num, MulWide(value, U64(threshold.den)))

\* check_outlier that counts only the samples it lets through
check_outlier_counts_accepted(o, value) ==
  IF ~o.initialized
  THEN [outlier |-> FALSE, od |-> o]
  ELSE IF ExceedsThreshold(value, o.threshold)
       THEN [outlier |-> TRUE,
             od |-> [o EXCEPT !.outlier_count = @ + 1]]
       ELSE [outlier |-> FALSE,
             od |-> [o EXCEPT !.samples_after_init = @ + 1]]

check_outlier(o, value) ==
  IF ~o.initialized
  THEN [outlier |-> FALSE, od |-> o]
  ELSE IF ExceedsThreshold(value, o.threshold)
       THEN [outlier |-> TRUE,
             od |-> [o EXCEPT !.samples_after_init = @ + 1,
                              !.outlier_count = @ + 1]]
       ELSE [outlier |-> FALSE,
             od |-> [o EXCEPT !.samples_after_init = @ + 1]]

\* the comparison with >= in place of >
PercentExceeds_or_equal(o) ==
  o.outlier_count * 100 >= OUTLIER_THRESHOLD_PERCENT * o.samples_after_init

\* outlier_percent > OUTLIER_THRESHOLD_PERCENT, for
\* outlier_percent = outlier_count / samples_after_init * 100.0
PercentExceeds(o) ==
  o.outlier_count * 100 > OUTLIER_THRESHOLD_PERCENT * o.samples_after_init

\* the lines check_outlier_warning prints
check_outlier_warning(o) ==
  IF ~o.initialized \/ o.samples_after_init = 0
  THEN <<>>
  ELSE IF PercentExceeds(o)
       THEN <<[type |-> "warning",
               outlier_count |-> o.outlier_count,
               samples_after_init |-> o.samples_after_init,
               threshold |-> o.threshold,
               calibration_avg |-> o.calibration_avg]>>
       ELSE <<>>

(***************************************************************************)
(* Report                                                                  *)
(***************************************************************************)
\* the cstats record; variance = sum_of_squares / n - mean * mean is kept as
\* the two terms over the common denominator n * n, and stddev =
\* sqrt(variance) is NaN when the variance is negative or n is 0
print_stats(st, n) ==
  LET minuend    == MulWide(st.sum_of_squares, U64(n))
      subtrahend == MulWide(st.sum, st.sum)
  IN  [type |-> "cstats",
       ntimes |-> n,
       mean |-> Frac(st.sum, n),
       variance_minuend |-> minuend,
       variance_subtrahend |-> subtrahend,
       stddev_nan |-> (n = 0 \/ Less(minuend, subtrahend)),
       min |-> st.min,
       max |-> st.max,
       sum_of_squares |-> st.sum_of_squares]

(***************************************************************************)
(* Histogram                                                               *)
(***************************************************************************)
\* get_hist_bucket that forgets to subtract HIST_MIN
get_hist_bucket_from_zero(value) ==
  IF Less(value, U64(HIST_MIN)) \/ ~Less(value, U64(HIST_MAX))
  THEN -1
  ELSE ToInt(value) \div HIST_STEP

get_hist_bucket(value) ==
  IF Less(value, U64(HIST_MIN)) \/ ~Less(value, U64(HIST_MAX))
  THEN -1
  ELSE (ToInt(value) - HIST_MIN) \div HIST_STEP

\* add_to_histogram that counts a value outside the range in the last bucket
add_to_histogram_overflow_bucket(h, value) ==
  LET bucket == get_hist_bucket(value)
  IN  IF bucket >= 0 /\ bucket < HIST_BUCKETS
      THEN [h EXCEPT ![bucket] = @ + 1]
      ELSE [h EXCEPT ![HIST_BUCKETS - 1] = @ + 1]

add_to_histogram(h, value) ==
  LET bucket == get_hist_bucket(value)
  IN  IF bucket >= 0 /\ bucket < HIST_BUCKETS
      THEN [h EXCEPT ![bucket] = @ + 1]
      ELSE h

print_histogram(h) ==
  [type |-> "chist",
   buckets |-> [k \in 1..HIST_BUCKETS |->
                  [min |-> HIST_MIN + (k - 1) * HIST_STEP,
                   max |-> HIST_MIN + k * HIST_STEP - 1,
                   count |-> h[k - 1]]]]

(***************************************************************************)
(* main: the warm-up count, the calibration point and the outcome check    *)
(***************************************************************************)
warmup_count(n) == n \div 5

\* the calibration point one sample late
calibration_point_one_late(n, prepare) ==
  IF n >= OUTLIER_CALIBRATION_SAMPLES
  THEN prepare + OUTLIER_CALIBRATION_SAMPLES + 1
  ELSE -1

calibration_point(n, prepare) ==
  IF n >= OUTLIER_CALIBRATION_SAMPLES
  THEN prepare + OUTLIER_CALIBRATION_SAMPLES
  ELSE -1

\* the calibration test holding at every index from the point on
at_calibration_and_after(point, idx) == point >= 0 /\ idx >= point

at_calibration(point, idx) == point >= 0 /\ idx = point

\* fd < 0 with another errno than the expected one
unexpected_error(expected, fd_errno) == fd_errno # 0 /\ expected # fd_errno

\* a success is never taken as unexpected
unexpected_success_never(expected, fd_errno) == FALSE

\* fd >= 0 although an error was expected
unexpected_success(expected, fd_errno) == fd_errno = 0 /\ expected # 0

\* the warm-up samples are recorded too
after_warmup_always(idx, prepare) == TRUE

\* the sample of index idx is past the warm-up
after_warmup(idx, prepare) == idx >= prepare

\* record_sample that classifies the sample of the calibration index
record_sample_classifies_at_calibration(point, idx, o, st, h, value) ==
  LET cal == init_outlier_detection(o, st)
      chk == check_outlier(IF at_calibration(point, idx) THEN cal.od ELSE o,
                           value)
  IN  IF at_calibration(point, idx) \/ o.initialized
      THEN [histogram |-> add_to_histogram(h, value),
            od |-> chk.od,
            stats |-> IF chk.outlier THEN st ELSE add_stat(st, value),
            admitted |-> ~chk.outlier,
            calibrated |-> at_calibration(point, idx) /\ cal.ok]
      ELSE [histogram |-> add_to_histogram(h, value),
            od |-> o, stats |-> add_stat(st, value),
            admitted |-> TRUE, calibrated |-> FALSE]

\* record_sample that keeps a rejected sample out of the histogram as well
record_sample_histogram_when_admitted(point, idx, o, st, h, value) ==
  LET cal == init_outlier_detection(o, st)
      chk == check_outlier(o, value)
  IN  IF at_calibration(point, idx)
      THEN [histogram |-> add_to_histogram(h, value),
            od |-> cal.od, stats |-> add_stat(st, value),
            admitted |-> TRUE, calibrated |-> cal.ok]
      ELSE IF o.initialized
      THEN [histogram |-> IF chk.outlier THEN h
                          ELSE add_to_histogram(h, value),
            od |-> chk.od,
            stats |-> IF chk.outlier THEN st ELSE add_stat(st, value),
            admitted |-> ~chk.outlier, calibrated |-> FALSE]
      ELSE [histogram |-> add_to_histogram(h, value),
            od |-> o, stats |-> add_stat(st, value),
            admitted |-> TRUE, calibrated |-> FALSE]

\* what the loop does with a sample that is past the warm-up: the histogram
\* always, the calibration at the calibration point, the classification once
\* the detector is initialized, the stats unless the sample is rejected
record_sample(point, idx, o, st, h, value) ==
  LET cal == init_outlier_detection(o, st)
      chk == check_outlier(o, value)
  IN  IF at_calibration(point, idx)
      THEN [histogram |-> add_to_histogram(h, value),
            od |-> cal.od, stats |-> add_stat(st, value),
            admitted |-> TRUE, calibrated |-> cal.ok]
      ELSE IF o.initialized
      THEN [histogram |-> add_to_histogram(h, value),
            od |-> chk.od,
            stats |-> IF chk.outlier THEN st ELSE add_stat(st, value),
            admitted |-> ~chk.outlier, calibrated |-> FALSE]
      ELSE [histogram |-> add_to_histogram(h, value),
            od |-> o, stats |-> add_stat(st, value),
            admitted |-> TRUE, calibrated |-> FALSE]

(***************************************************************************)
(* State of main                                                           *)
(***************************************************************************)
VARIABLES
  pc,                 \* "start", "loop", "done" (returned 0), "exit" (returned 1)
  exit_status,        \* -1 while running
  argc, ntimes, err, verbose,
  prepare_ntimes, outlier_init_point, i,
  open_errno,         \* the last open: 0 for a descriptor, else the errno
  ns_elapsed,         \* the duration measured by the last iteration
  stats, od, histogram,
  out,                \* the lines printed so far, in order
  admitted, rejected  \* history: how often each duration went into / was
                      \* kept out of the stats

vars == <<pc, exit_status, argc, ntimes, err, verbose, prepare_ntimes,
          outlier_init_point, i, open_errno, ns_elapsed, stats, od,
          histogram, out, admitted, rejected>>

Line(t) == [type |-> t]
When(c, lines) == IF c THEN lines ELSE <<>>

Init ==
  /\ pc = "start"
  /\ exit_status = -1
  /\ argc \in {3, 4}
  /\ ntimes \in NtimesInputs
  /\ err \in ErrInputs(ntimes)
  /\ verbose \in VerboseInputs(ntimes)
  /\ prepare_ntimes = 0
  /\ outlier_init_point = 0
  /\ i = 0
  /\ open_errno = 0
  /\ ns_elapsed = U64(0)
  /\ stats = stats_init
  /\ od = od_init
  /\ histogram = [b \in 0..(HIST_BUCKETS - 1) |-> 0]
  /\ out = <<>>
  /\ admitted = [v \in Latencies(ntimes) |-> 0]
  /\ rejected = [v \in Latencies(ntimes) |-> 0]

\* main, from the argument check to the start of the loop
Setup ==
  /\ pc = "start"
  /\ \E calloc_ok \in BOOLEAN :
       IF argc # 4
       THEN /\ pc' = "exit" /\ exit_status' = 1
            /\ UNCHANGED <<prepare_ntimes, outlier_init_point, out>>
       ELSE IF ~calloc_ok
       THEN /\ pc' = "exit" /\ exit_status' = 1
            /\ out' = out \o <<Line("perror: Failed to allocate histogram")>>
            /\ UNCHANGED <<prepare_ntimes, outlier_init_point>>
       ELSE IF ntimes <= 0
       THEN /\ pc' = "exit" /\ exit_status' = 1
            /\ out' = out \o When(verbose, <<Line("[#] ntimes")>>)
            /\ UNCHANGED <<prepare_ntimes, outlier_init_point>>
       ELSE /\ pc' = "loop" /\ exit_status' = exit_status
            /\ prepare_ntimes' = warmup_count(ntimes)
            /\ outlier_init_point' =
                 calibration_point(ntimes, warmup_count(ntimes))
            /\ out' = out \o When(verbose,
                        <<Line("[#] ntimes"), Line("[#] warm up"),
                          Line("[#] expected errno"), Line("[#] path")>>)
  /\ UNCHANGED <<argc, ntimes, err, verbose, i, open_errno, ns_elapsed,
                 stats, od, histogram, admitted, rejected>>

\* one iteration of the measurement loop
Iterate ==
  /\ pc = "loop"
  /\ i < prepare_ntimes + ntimes
  /\ \E outcome \in OpenOutcomes, ns \in Latencies(ntimes) :
       /\ open_errno' = outcome
       /\ IF unexpected_error(err, outcome)
          THEN /\ pc' = "exit" /\ exit_status' = 1
               /\ out' = out \o <<Line("perror: Unexpected error")>>
               /\ UNCHANGED <<i, ns_elapsed, stats, od, histogram, admitted,
                              rejected>>
          ELSE IF unexpected_success(err, outcome)
          THEN /\ pc' = "exit" /\ exit_status' = 1
               /\ out' = out \o <<Line("stderr: Unexpected success")>>
               /\ UNCHANGED <<i, ns_elapsed, stats, od, histogram, admitted,
                              rejected>>
          ELSE
            LET warm == When(verbose /\ i = prepare_ntimes,
                             <<Line("[#] Done warming up.")>>)
            IN
            /\ UNCHANGED <<pc, exit_status>>
            /\ ns_elapsed' = ns
            /\ i' = i + 1
            /\ IF after_warmup(i, prepare_ntimes)
               THEN \E r \in {record_sample(outlier_init_point, i, od, stats,
                                            histogram, ns)} :
                    /\ histogram' = r.histogram
                    /\ od' = r.od
                    /\ stats' = r.stats
                    /\ out' = out \o warm \o
                         When(r.calibrated /\ verbose,
                           <<Line("[#] Outlier detection initialized")>>)
                    /\ IF r.admitted
                       THEN /\ admitted' = [admitted EXCEPT ![ns] = @ + 1]
                            /\ UNCHANGED rejected
                       ELSE /\ rejected' = [rejected EXCEPT ![ns] = @ + 1]
                            /\ UNCHANGED admitted
               ELSE /\ out' = out \o warm
                    /\ UNCHANGED <<stats, od, histogram, admitted, rejected>>
  /\ UNCHANGED <<argc, ntimes, err, verbose, prepare_ntimes,
                 outlier_init_point>>

\* Report printing the histogram before the stats
Report_histogram_first ==
  /\ pc = "loop"
  /\ i >= prepare_ntimes + ntimes
  /\ out' = out \o check_outlier_warning(od)
                \o When(verbose, <<Line("[#] Total time")>>)
                \o <<print_histogram(histogram)>>
                \o <<print_stats(stats, stats.count)>>
  /\ pc' = "done"
  /\ exit_status' = 0
  /\ UNCHANGED <<argc, ntimes, err, verbose, prepare_ntimes,
                 outlier_init_point, i, open_errno, ns_elapsed, stats, od,
                 histogram, admitted, rejected>>

\* Report dividing by the requested repeat count
Report_requested_ntimes ==
  /\ pc = "loop"
  /\ i >= prepare_ntimes + ntimes
  /\ out' = out \o check_outlier_warning(od)
                \o When(verbose, <<Line("[#] Total time")>>)
                \o <<print_stats(stats, ntimes)>>
                \o <<print_histogram(histogram)>>
  /\ pc' = "done"
  /\ exit_status' = 0
  /\ UNCHANGED <<argc, ntimes, err, verbose, prepare_ntimes,
                 outlier_init_point, i, open_errno, ns_elapsed, stats, od,
                 histogram, admitted, rejected>>

\* main after the loop: the warning, the records, return 0
Report ==
  /\ pc = "loop"
  /\ i >= prepare_ntimes + ntimes
  /\ out' = out \o check_outlier_warning(od)
                \o When(verbose, <<Line("[#] Total time")>>)
                \o <<print_stats(stats, stats.count)>>
                \o <<print_histogram(histogram)>>
  /\ pc' = "done"
  /\ exit_status' = 0
  /\ UNCHANGED <<argc, ntimes, err, verbose, prepare_ntimes,
                 outlier_init_point, i, open_errno, ns_elapsed, stats, od,
                 histogram, admitted, rejected>>

Next == Setup \/ Iterate \/ Report

Spec == Init /\ [][Next]_vars

(***************************************************************************)
(* The histogram functions on their own: one value is recorded into an     *)
(* empty histogram, which is then printed                                  *)
(***************************************************************************)
HistValues ==
  {U64(v) : v \in 0..MaxHistValue} \cup {TwoPow32, UINT64_MAX}

HistInit ==
  /\ pc = "hist"
  /\ exit_status = -1
  /\ argc = 4 /\ ntimes = 1 /\ err = 0 /\ verbose = FALSE
  /\ prepare_ntimes = 0
  /\ outlier_init_point = 0
  /\ i = 0
  /\ open_errno = 0
  /\ ns_elapsed \in HistValues
  /\ stats = stats_init
  /\ od = od_init
  /\ histogram = [b \in 0..(HIST_BUCKETS - 1) |-> 0]
  /\ out = <<>>
  /\ admitted = [v \in Latencies(ntimes) |-> 0]
  /\ rejected = [v \in Latencies(ntimes) |-> 0]

HistAdd ==
  /\ pc = "hist"
  /\ histogram' = add_to_histogram(histogram, ns_elapsed)
  /\ pc' = "hist_added"
  /\ UNCHANGED <<exit_status, argc, ntimes, err, verbose, prepare_ntimes,
                 outlier_init_point, i, open_errno, ns_elapsed, stats, od,
                 out, admitted, rejected>>

HistPrint ==
  /\ pc = "hist_added"
  /\ out' = out \o <<print_histogram(histogram)>>
  /\ pc' = "hist_printed"
  /\ UNCHANGED <<exit_status, argc, ntimes, err, verbose, prepare_ntimes,
                 outlier_init_point, i, open_errno, ns_elapsed, stats, od,
                 histogram, admitted, rejected>>

HistNext == HistAdd \/ HistPrint

HistSpec == HistInit /\ [][HistNext]_vars

(***************************************************************************)
(* The admitted samples, summed exactly                                    *)
(***************************************************************************)
TwoPow64 == [k \in 1..(Limbs + 1) |-> IF k = Limbs + 1 THEN 1 ELSE 0]

\* a without its leading zero bytes
RECURSIVE Trim(_)
Trim(a) ==
  IF Len(a) > 1 /\ a[Len(a)] = 0
  THEN Trim([k \in 1..(Len(a) - 1) |-> a[k]])
  ELSE a

\* a natural number below 2^16, as two bytes
Small(n) == <<n % Base, n \div Base>>

RECURSIVE BagSum(_, _)
BagSum(bag, S) ==
  IF S = {} THEN <<0>>
  ELSE LET v == CHOOSE x \in S : TRUE
       IN  Trim(AddWide(MulWide(Trim(v), Small(bag[v])),
                        BagSum(bag, S \ {v})))

RECURSIVE BagSumSq(_, _)
BagSumSq(bag, S) ==
  IF S = {} THEN <<0>>
  ELSE LET v == CHOOSE x \in S : TRUE
       IN  Trim(AddWide(MulWide(MulWide(Trim(v), Trim(v)), Small(bag[v])),
                        BagSumSq(bag, S \ {v})))

RECURSIVE BagCount(_, _)
BagCount(bag, S) ==
  IF S = {} THEN 0
  ELSE LET v == CHOOSE x \in S : TRUE
       IN  bag[v] + BagCount(bag, S \ {v})

Present(bag) == {v \in DOMAIN bag : bag[v] > 0}

BagMin(bag) ==
  IF Present(bag) = {} THEN UINT64_MAX
  ELSE CHOOSE v \in Present(bag) : \A w \in Present(bag) : Leq(v, w)

BagMax(bag) ==
  IF Present(bag) = {} THEN U64(0)
  ELSE CHOOSE v \in Present(bag) : \A w \in Present(bag) : Leq(w, v)

\* neither the sum s nor the sum of squares q reaches 2^64
NoOverflow(s, q) == Less(s, TwoPow64) /\ Less(q, TwoPow64)

Printed(t) == {k \in DOMAIN out : out[k].type = t}

(***************************************************************************)
(* Claims                                                                  *)
(***************************************************************************)

\* C1: as long as nothing overflows 64 bits, the accumulator holds the sum,
\* the sum of squares, the number, the minimum and the maximum of the
\* samples admitted through add_stat since the initial state.
C1_AddStatAccumulates ==
  LET s == BagSum(admitted, DOMAIN admitted)
      q == BagSumSq(admitted, DOMAIN admitted)
  IN
  NoOverflow(s, q) =>
    /\ Same(stats.sum, s)
    /\ Same(stats.sum_of_squares, q)
    /\ stats.count = BagCount(admitted, DOMAIN admitted)
    /\ Same(stats.min, BagMin(admitted))
    /\ Same(stats.max, BagMax(admitted))

\* the three samples 10, 20, 30 were admitted: sum 60, squares 1400
C1_Witness ==
  /\ ntimes = 3 /\ pc = "done"
  /\ admitted[U64(10)] = 1 /\ admitted[U64(20)] = 1 /\ admitted[U64(30)] = 1
  /\ Same(stats.sum, U64(60))
  /\ Same(stats.sum_of_squares, U64(1400))
  /\ stats.count = 3
  /\ Same(stats.min, U64(10))
  /\ Same(stats.max, U64(30))

\* C2: the variance of the report is never negative: count * sum_of_squares
\* >= sum * sum in every state, wrapped additions and squares included, and
\* no printed cstats record has a NaN stddev.
C2_VarianceNonNegative ==
  /\ stats.count > 0 =>
       Leq(MulWide(stats.sum, stats.sum),
           MulWide(U64(stats.count), stats.sum_of_squares))
  /\ \A k \in Printed("cstats") : ~out[k].stddev_nan

\* C3: whenever count > 0, min * count <= sum <= max * count, so that
\* min <= mean <= max for the reported values.
C3_MeanBetweenMinAndMax ==
  stats.count > 0 =>
    /\ Leq(MulWide(stats.min, U64(stats.count)), stats.sum)
    /\ Leq(stats.sum, MulWide(stats.max, U64(stats.count)))

\* a completed run that rejected a sample and whose stats hold two values
C3_Witness ==
  /\ pc = "done"
  /\ od.outlier_count > 0
  /\ Less(stats.min, stats.max)

\* how often the duration v was measured after the warm-up
Raw(v) == admitted[v] + rejected[v]

\* the threshold is the number n
ThresholdIs(n) ==
  Same(od.threshold.num, MulWide(U64(n), U64(od.threshold.den)))

\* C4: in a run that completes with ntimes >= OUTLIER_CALIBRATION_SAMPLES the
\* detector goes from Inert to Armed exactly once, at the calibration point:
\* it is Armed exactly when the sample of index warm-up count + 50 has been
\* processed, and it is Armed when the run completes.
C4_ArmedExactlyOnce ==
  (pc \in {"loop", "done"} /\ ntimes >= OUTLIER_CALIBRATION_SAMPLES) =>
    /\ od.initialized <=> (i > prepare_ntimes + OUTLIER_CALIBRATION_SAMPLES)
    /\ pc = "done" => od.initialized

\* C5: once Armed the detector stays Armed, calibration_avg and threshold
\* keep their values, and outlier_count and samples_after_init are never
\* reset.
C5_ArmedIsPermanent ==
  [][od.initialized =>
       /\ od'.initialized
       /\ od'.calibration_avg = od.calibration_avg
       /\ od'.threshold = od.threshold
       /\ od'.outlier_count >= od.outlier_count
       /\ od'.samples_after_init >= od.samples_after_init]_vars

\* an Armed detector that has classified several samples and rejected one
C5_Witness ==
  /\ od.initialized
  /\ od.samples_after_init >= 2
  /\ od.outlier_count >= 1
  /\ pc = "loop"

\* C6: samples_after_init is the number of post-warm-up samples processed
\* with an index strictly greater than the calibration point, 0 while Inert,
\* and ntimes - 51 at the end of a completed run with the detector Armed.
C6_SamplesAfterInitCounts ==
  /\ pc # "start" =>
       od.samples_after_init =
         IF od.initialized
         THEN Cardinality({k \in prepare_ntimes..(i - 1) :
                             k > outlier_init_point})
         ELSE 0
  /\ (pc = "done" /\ od.initialized) =>
       od.samples_after_init = ntimes - (OUTLIER_CALIBRATION_SAMPLES + 1)

\* a completed run with several classified samples, one of them rejected
C6_Witness ==
  /\ pc = "done"
  /\ od.initialized
  /\ od.samples_after_init >= 2
  /\ od.outlier_count >= 1

\* C7, as stated: the run over the 11 samples [100 x10, 5000] calibrates at
\* index 10 with threshold 1000 and rejects 5000: outlier_count = 1,
\* samples_after_init = 1, 5000 is not in the stats and the warning fires.
C7_ScenarioOf11 ==
  (pc = "done" /\ ntimes = 11 /\ Raw(U64(100)) = 10 /\ Raw(U64(5000)) = 1
     /\ Same(ns_elapsed, U64(5000))) =>
    /\ od.initialized
    /\ ThresholdIs(1000)
    /\ od.outlier_count = 1
    /\ od.samples_after_init = 1
    /\ admitted[U64(5000)] = 0
    /\ Printed("warning") # {}

\* C7, amended: with the calibration point of the program (post-warm-up
\* index 50) and the 52 samples [100 x51, 5000], the threshold is 1000 and
\* 5000 is rejected: outlier_count = 1, samples_after_init = 1, 5000 is not
\* in the stats and the warning fires.
C7_ScenarioOf52 ==
  (pc = "done" /\ ntimes = OUTLIER_CALIBRATION_SAMPLES + 2
     /\ Raw(U64(100)) = OUTLIER_CALIBRATION_SAMPLES + 1
     /\ Raw(U64(5000)) = 1
     /\ Same(ns_elapsed, U64(5000))) =>
    /\ od.initialized
    /\ ThresholdIs(1000)
    /\ od.outlier_count = 1
    /\ od.samples_after_init = 1
    /\ admitted[U64(5000)] = 0
    /\ Same(stats.max, U64(100))
    /\ stats.count = OUTLIER_CALIBRATION_SAMPLES + 1
    /\ Cardinality(Printed("warning")) = 1

\* the run over [100 x51, 5000] has completed and warned
C7_Witness ==
  /\ pc = "done" /\ ntimes = OUTLIER_CALIBRATION_SAMPLES + 2
  /\ Raw(U64(100)) = OUTLIER_CALIBRATION_SAMPLES + 1
  /\ Raw(U64(5000)) = 1
  /\ Same(ns_elapsed, U64(5000))
  /\ Printed("warning") # {}

\* C8: while Armed, every classified sample increments samples_after_init;
\* it is rejected (outlier_count incremented, stats untouched) exactly when
\* value > threshold, and otherwise admitted with outlier_count unchanged;
\* and outlier_count <= samples_after_init always.
C8_StrictThreshold ==
  /\ [](od.outlier_count <= od.samples_after_init)
  /\ [][\A value \in Latencies(ntimes) :
          (pc = "loop" /\ od.initialized /\ i' = i + 1
             /\ ns_elapsed' = value) =>
            /\ od'.samples_after_init = od.samples_after_init + 1
            /\ IF Less(od.threshold.num,
                       MulWide(value, U64(od.threshold.den)))
               THEN /\ od'.outlier_count = od.outlier_count + 1
                    /\ stats' = stats
                    /\ admitted' = admitted
               ELSE /\ od'.outlier_count = od.outlier_count
                    /\ stats'.count = stats.count + 1
                    /\ admitted'[value] = admitted[value] + 1
                    /\ rejected' = rejected]_vars

\* a sample equal to the threshold (1000 = 10 x 100) was classified and
\* admitted
C8_Witness ==
  /\ od.initialized
  /\ od.samples_after_init = 1
  /\ ThresholdIs(1000)
  /\ Same(ns_elapsed, U64(1000))
  /\ admitted[ns_elapsed] = 1
  /\ od.outlier_count = 0

\* C9: with ntimes < OUTLIER_CALIBRATION_SAMPLES the detector stays Inert:
\* initialized is never set, both counters stay 0, every post-warm-up sample
\* is admitted to the stats, and no warning is printed.
C9_InertBelowFloor ==
  ntimes < OUTLIER_CALIBRATION_SAMPLES =>
    /\ ~od.initialized
    /\ od.outlier_count = 0
    /\ od.samples_after_init = 0
    /\ \A v \in DOMAIN rejected : rejected[v] = 0
    /\ stats.count = Max2(0, i - prepare_ntimes)
    /\ Printed("warning") = {}

\* the 11-sample run has completed with the spike of 5000 in its stats
C9_Witness ==
  /\ pc = "done" /\ ntimes = 11
  /\ stats.count = 11
  /\ Same(stats.max, U64(5000))

\* C10: a completed run has printed the warning exactly when the detector is
\* Armed, samples_after_init > 0 and outlier_count * 100 >
\* 5 * samples_after_init; no other run state has printed it; and the step
\* that prints it changes neither the detector nor the stats nor the
\* histogram.
C10_WarningRule ==
  /\ [](IF pc = "done"
        THEN /\ Cardinality(Printed("warning")) <= 1
             /\ Printed("warning") # {} <=>
                  /\ od.initialized
                  /\ od.samples_after_init > 0
                  /\ od.outlier_count * 100 > 5 * od.samples_after_init
        ELSE Printed("warning") = {})
  /\ [][(pc = "loop" /\ pc' = "done") =>
          (od' = od /\ stats' = stats /\ histogram' = histogram)]_vars

\* a completed run at exactly 5% (1 of 20) that printed no warning
C10_Witness ==
  /\ pc = "done"
  /\ od.initialized
  /\ od.samples_after_init = 20
  /\ od.outlier_count = 1
  /\ Printed("warning") = {}

(***************************************************************************)
(* Histogram, report and warm-up claims                                    *)
(***************************************************************************)
\* the sum of the buckets 0 .. b
RECURSIVE HistSum(_, _)
HistSum(h, b) == IF b < 0 THEN 0 ELSE h[b] + HistSum(h, b - 1)

HistTotal == HistSum(histogram, HIST_BUCKETS - 1)

\* how often the durations of S were measured after the warm-up
RECURSIVE RawSum(_)
RawSum(S) ==
  IF S = {} THEN 0
  ELSE LET v == CHOOSE x \in S : TRUE
       IN  Raw(v) + RawSum(S \ {v})

\* the durations of the run inside and outside the range of the histogram
InRange == {v \in DOMAIN admitted :
              Leq(U64(HIST_MIN), v) /\ Less(v, U64(HIST_MAX))}
OutOfRange == (DOMAIN admitted) \ InRange

\* the number of samples processed after the warm-up
PostWarmup == Max2(0, i - prepare_ntimes)

\* C11: a call of add_to_histogram increments exactly one bucket by one when
\* the value is in [100, 2000) and changes no bucket otherwise; the buckets
\* sum to the number of calls with a value in range and never exceed the
\* number of calls.
C11_OneBucketOrNone ==
  /\ [](pc # "start" =>
          /\ HistTotal = RawSum(InRange)
          /\ HistTotal <= PostWarmup)
  /\ [][\A value \in Latencies(ntimes) :
          (pc = "loop" /\ i' = i + 1 /\ i >= prepare_ntimes
             /\ ns_elapsed' = value) =>
            IF value \in InRange
            THEN \E b \in 0..(HIST_BUCKETS - 1) :
                   histogram' = [histogram EXCEPT ![b] = @ + 1]
            ELSE histogram' = histogram]_vars
  /\ [][i' = i => histogram' = histogram]_vars

\* a completed run that recorded a value in range and dropped one above it
C11_Witness ==
  /\ pc = "done"
  /\ U64(5000) \in DOMAIN admitted
  /\ Raw(U64(5000)) >= 1
  /\ histogram[0] >= 1
  /\ HistTotal < ntimes

\* the bytes above the third are zero
IsSmall(a) == \A k \in 4..Limbs : a[k] = 0

\* C12: for a value v in [100, 2000) get_hist_bucket returns the one index k
\* of 0..18 with 100 + 100 k <= v <= 100 + 100 (k + 1) - 1, the range that
\* print_histogram prints for bucket k, and for any other value it returns
\* -1; the printed buckets are ascending, contiguous and disjoint and cover
\* 100 .. 1999.
C12_BucketOfValue ==
  LET b == get_hist_bucket(ns_elapsed)
      v == ToInt(ns_elapsed)
  IN
  /\ IF IsSmall(ns_elapsed) /\ 100 <= v /\ v < 2000
     THEN /\ {k \in 0..18 : 100 + 100 * k <= v /\ v <= 100 + 100 * (k + 1) - 1}
               = {b}
          /\ pc # "hist" =>
               histogram = [k \in 0..18 |-> IF k = b THEN 1 ELSE 0]
          /\ pc = "hist_printed" =>
               /\ out[1].buckets[b + 1].min <= v
               /\ v <= out[1].buckets[b + 1].max
               /\ out[1].buckets[b + 1].count = 1
     ELSE /\ b = -1
          /\ \A k \in 0..18 : histogram[k] = 0
  /\ pc = "hist_printed" =>
       /\ out[1].type = "chist"
       /\ Len(out[1].buckets) = 19
       /\ out[1].buckets[1].min = 100
       /\ out[1].buckets[19].max = 1999
       /\ \A k \in 1..19 : out[1].buckets[k].min <= out[1].buckets[k].max
       /\ \A k \in 1..18 :
            out[1].buckets[k].max + 1 = out[1].buckets[k + 1].min

\* the value 1999 was recorded in the last bucket and printed
C12_Witness ==
  /\ pc = "hist_printed"
  /\ ns_elapsed = U64(1999)
  /\ histogram[18] = 1
  /\ out[1].buckets[19].count = 1

\* C13: cstats and chist are printed only by a run that made all
\* W + ntimes iterations with every open matching the expected error code,
\* and that run returns 0; a run with a wrong argument count, a non-positive
\* repeat count or a mismatching open (warm-up included) stops there with
\* status 1, makes no further step and prints no cstats, chist or warning.
C13_ReportOnlyWhenCompleted ==
  /\ [](/\ (Printed("cstats") \cup Printed("chist")) # {} =>
             /\ pc = "done" /\ argc = 4 /\ ntimes > 0
             /\ i = prepare_ntimes + ntimes
        /\ pc = "done" =>
             /\ exit_status = 0
             /\ Printed("cstats") # {} /\ Printed("chist") # {}
        /\ pc = "exit" =>
             /\ exit_status = 1
             /\ Printed("cstats") = {} /\ Printed("chist") = {}
             /\ Printed("warning") = {}
        /\ pc \in {"start", "loop"} => exit_status = -1
        /\ (pc # "start" /\ (argc # 4 \/ ntimes <= 0)) =>
             (pc = "exit" /\ i = 0)
        /\ (pc \in {"loop", "done"} /\ i > 0) => open_errno = err)
  /\ [][pc \notin {"exit", "done"}]_vars
  /\ [][(pc = "loop" /\ open_errno' # err) =>
          (pc' = "exit" /\ exit_status' = 1 /\ i' = i)]_vars

\* a run stopped by a mismatching open during the warm-up
C13_Witness ==
  /\ pc = "exit"
  /\ 0 < i /\ i < prepare_ntimes
  /\ open_errno = 0 /\ err # 0
  /\ exit_status = 1

\* C14: a completed run has printed the warning (if any), then exactly one
\* cstats record, then exactly one chist record as its last line; a run that
\* has not completed the loop has printed none of them.
C14_ReportOrder ==
  IF pc = "done"
  THEN /\ i = prepare_ntimes + ntimes
       /\ Cardinality(Printed("warning")) <= 1
       /\ Cardinality(Printed("cstats")) = 1
       /\ Printed("chist") = {Len(out)}
       /\ \A c \in Printed("cstats") :
            /\ c < Len(out)
            /\ \A w \in Printed("warning") : w < c
  ELSE /\ Printed("warning") = {}
       /\ Printed("cstats") = {}
       /\ Printed("chist") = {}

\* a verbose completed run that printed a warning and both records
C14_Witness ==
  /\ pc = "done"
  /\ verbose
  /\ Printed("warning") # {}
  /\ Printed("cstats") # {}
  /\ Printed("chist") # {}

\* C15: the threshold fixed at the calibration point is 10 times the mean of
\* exactly the 50 post-warm-up samples that precede the calibration index:
\* the detector is armed with stats.count = 50 at index W + 50, never takes
\* the count == 0 branch, the threshold is 10 * sum / 50 of the stats as
\* they were before the sample of the calibration index was added, and no
\* later sample changes it.
C15_ThresholdFromFiftySamples ==
  /\ [][(~od.initialized /\ od'.initialized) =>
          /\ pc = "loop"
          /\ i = prepare_ntimes + 50
          /\ stats.count = 50
          /\ BagCount(admitted, DOMAIN admitted) = 50
          /\ \A v \in DOMAIN rejected : rejected[v] = 0
          /\ od'.calibration_avg = Frac(stats.sum, 50)
          /\ od'.threshold = Frac(MulWide(stats.sum, U64(10)), 50)]_vars
  /\ [][(pc = "loop" /\ outlier_init_point >= 0 /\ i = outlier_init_point
           /\ i' = i + 1) => od'.initialized]_vars
  /\ [][od.initialized =>
          (od'.threshold = od.threshold
             /\ od'.calibration_avg = od.calibration_avg)]_vars
  /\ [](od.initialized =>
          /\ od.threshold.den = 50
          /\ od.calibration_avg.den = 50
          /\ Same(od.threshold.num,
                  MulWide(od.calibration_avg.num, U64(10))))

\* just armed on 49 samples of 100 and one of 5000: threshold 1980, whatever
\* the sample of the calibration index was
C15_Witness ==
  /\ od.initialized
  /\ i = outlier_init_point + 1
  /\ ThresholdIs(1980)
  /\ Same(ns_elapsed, U64(100))

\* C16: the sample measured at the calibration index is admitted to the
\* stats unconditionally: it is not classified, both counters are 0 after
\* it, and it enters the stats even when it exceeds the new threshold.
C16_CalibrationSampleAdmitted ==
  [][\A value \in Latencies(ntimes) :
       (pc = "loop" /\ outlier_init_point >= 0 /\ i = outlier_init_point
          /\ i' = i + 1 /\ ns_elapsed' = value) =>
         /\ od'.samples_after_init = 0
         /\ od'.outlier_count = 0
         /\ stats' = add_stat(stats, value)
         /\ admitted'[value] = admitted[value] + 1
         /\ rejected' = rejected]_vars

\* the sample of the calibration index was 5000 against a threshold of 1000
\* and is in the stats
C16_Witness ==
  /\ od.initialized
  /\ i = outlier_init_point + 1
  /\ ThresholdIs(1000)
  /\ Same(ns_elapsed, U64(5000))
  /\ admitted[ns_elapsed] = 1
  /\ Same(stats.max, U64(5000))
  /\ od.samples_after_init = 0
  /\ od.outlier_count = 0

\* how often the durations of S in bucket b were measured after the warm-up
RawInBucket(S, b) ==
  RawSum({v \in S : (ToInt(v) - HIST_MIN) \div HIST_STEP = b})

\* C17: the histogram is fed every post-warm-up sample, rejected or not:
\* each bucket counts the admitted and the rejected samples of its range,
\* the buckets plus the out-of-range samples make the number of post-warm-up
\* samples processed, and ntimes at the end of a completed run.
C17_HistogramSeesRawSamples ==
  pc # "start" =>
    \A S \in {InRange} :
      /\ \A b \in 0..(HIST_BUCKETS - 1) : histogram[b] = RawInBucket(S, b)
      /\ \A total \in {HistTotal + RawSum((DOMAIN admitted) \ S)} :
           /\ total = PostWarmup
           /\ pc = "done" => total = ntimes

\* a completed run in which a rejected sample of 1500 is in the histogram
C17_Witness ==
  /\ pc = "done"
  /\ U64(1500) \in DOMAIN rejected
  /\ rejected[U64(1500)] >= 1
  /\ histogram[14] = Raw(U64(1500))
  /\ histogram[14] > admitted[U64(1500)]

\* C18: the ntimes field of the cstats record and the divisor of the mean
\* and of the variance are stats.count; at the end of a completed run stats.count +
\* outlier_count is the requested ntimes, so the reported ntimes is below
\* the requested one whenever a sample was rejected.
C18_ReportsAdmittedCount ==
  pc = "done" =>
    /\ stats.count + od.outlier_count = ntimes
    /\ \A k \in Printed("cstats") :
         /\ out[k].ntimes = stats.count
         /\ out[k].mean.den = stats.count
         /\ out[k].mean.num = stats.sum
         /\ out[k].variance_minuend =
              MulWide(stats.sum_of_squares, U64(stats.count))
         /\ out[k].ntimes = ntimes - od.outlier_count
         /\ od.outlier_count > 0 => out[k].ntimes < ntimes

\* a completed run that rejected samples and reported fewer than requested
C18_Witness ==
  /\ pc = "done"
  /\ od.outlier_count >= 2
  /\ \E k \in Printed("cstats") : out[k].ntimes = ntimes - od.outlier_count

\* C19: a run makes W + ntimes iterations with W = ntimes \div 5; the first
\* W samples leave the stats, the detector and the histogram unchanged but
\* are checked against the expected error code; exactly the last ntimes
\* samples reach the three structures.
C19_WarmupDiscarded ==
  /\ [](pc \in {"loop", "done"} =>
          /\ prepare_ntimes = ntimes \div 5
          /\ i <= prepare_ntimes + ntimes
          /\ RawSum(DOMAIN admitted) = PostWarmup
          /\ i <= prepare_ntimes =>
               /\ stats = stats_init
               /\ od = od_init
               /\ \A b \in 0..(HIST_BUCKETS - 1) : histogram[b] = 0
          /\ (0 < i /\ i <= prepare_ntimes) => open_errno = err
          /\ pc = "done" =>
               /\ i = prepare_ntimes + ntimes
               /\ RawSum(DOMAIN admitted) = ntimes)
  /\ [][(pc = "loop" /\ i < prepare_ntimes) =>
          (stats' = stats /\ od' = od /\ histogram' = histogram
             /\ admitted' = admitted /\ rejected' = rejected)]_vars

\* the warm-up of two samples is over, the last one took 5000, and the
\* three structures are untouched
C19_Witness ==
  /\ pc = "loop"
  /\ prepare_ntimes >= 2
  /\ i = prepare_ntimes
  /\ Same(ns_elapsed, U64(5000))
  /\ stats = stats_init
  /\ HistTotal = 0

\* C20: the first min(ntimes, 51) post-warm-up samples are always admitted,
\* so a run that reaches the report has stats.count >= 1: the divisor of
\* print_stats is not 0 and min <= max.
C20_ReportHasSamples ==
  /\ pc \in {"loop", "done"} => stats.count >= Min2(PostWarmup, 51)
  /\ pc = "done" =>
       /\ stats.count >= 1
       /\ stats.count >= Min2(ntimes, 51)
       /\ Leq(stats.min, stats.max)
       /\ \A k \in Printed("cstats") : out[k].ntimes >= 1

\* a completed run in which every classified sample was rejected: only the
\* first 51 samples are in the stats
C20_Witness ==
  /\ pc = "done"
  /\ od.initialized
  /\ od.samples_after_init >= 3
  /\ od.outlier_count = od.samples_after_init
  /\ stats.count = 51
====
